---- MODULE Spec2Model ----
(***************************************************************************)
(* State machine of the websocket message router: WebsocketHandler (the    *)
(* connection registry `sockets` and the host API), AutoupdateHandler (the *)
(* topic table `socketMap`), EventMap (the BehaviorSubject per event name) *)
(* and SocketConnection (parsing of inbound frames, send).                 *)
(*                                                                         *)
(* Every action is one handler or one host call, run to completion (the    *)
(* program is single threaded).  The variables op, sent, hooks and error   *)
(* record what the last handler was called with and what it did: the calls *)
(* of SocketConnection.send it made, the host hooks it invoked and whether *)
(* it ended by throwing.                                                   *)
(***************************************************************************)
EXTENDS Integers, Sequences, FiniteSets, TLC

\* ---------------------------------------------------------------- bounds
\* transport connections that may ever be requested
MaxConns == 2
\* longest subscriber array of one event (subscribe itself has no limit)
MaxSubs == 2
\* subscriptions host code may ever make on observables of the event map
MaxObservers == 2
\* most values one such subscription is given, its first one included
MaxReceived == 3

Conns == 1..MaxConns
\* the strings Random.RandomString() returns: at most one new string per request
Ids == 1..MaxConns
NoSocket == 0
NoId == 0

Topics == {"rooms", "chat"}
Payloads == {[x |-> 1], [x |-> 2]}
\* JavaScript's undefined, where a message is expected
Undefined == [undefined |-> TRUE]
\* the initial value of a BehaviorSubject created by EventMap.getSubject
Null == [null |-> TRUE]

VARIABLES
    connections,  \* the SocketConnection objects: transport status and _id
    sockets,      \* WebsocketHandler.sockets: Map<string, SocketConnection>
    socketMap,    \* AutoupdateHandler.socketMap: event -> SocketConnection[]
    mapEvents,    \* EventMap.map: event name -> value of its BehaviorSubject
    observers,    \* the subscriptions on the subjects, in subscription order
    op,           \* the last handler or host call and its arguments
    sent,         \* the calls of SocketConnection.send it made, in order
    hooks,        \* the host hooks it invoked, in order
    error         \* TRUE when it ended by throwing

vars == <<connections, sockets, socketMap, mapEvents, observers, op, sent, hooks,
          error>>

\* ------------------------------------------------- Map<string, SocketConnection>
\* A JavaScript Map as the sequence of its entries in insertion order.
MapHas(m, key) == \E i \in 1..Len(m) : m[i].id = key

MapGet(m, key) ==
    IF MapHas(m, key)
    THEN m[CHOOSE i \in 1..Len(m) : m[i].id = key].socket
    ELSE NoSocket

\* Map.set: a present key keeps its place and takes the new value.
MapSet(m, key, value) ==
    IF MapHas(m, key)
    THEN [i \in 1..Len(m) |->
            IF m[i].id = key THEN [id |-> key, socket |-> value] ELSE m[i]]
    ELSE Append(m, [id |-> key, socket |-> value])

MapDelete(m, key) == SelectSeq(m, LAMBDA e : e.id # key)

MapKeys(m) == [i \in 1..Len(m) |-> m[i].id]

MapValues(m) == [i \in 1..Len(m) |-> m[i].socket]

\* ------------------------------------------------------------ observations
Range(s) == {s[i] : i \in 1..Len(s)}

\* getSockets(): the id of every value of the Map, in its order
GetSockets(m) == [i \in 1..Len(m) |-> connections[m[i].socket].id]

\* a host hook called with a socket; `listed` is what getSockets() returns to it
Hook(name, socket, m) ==
    [hook |-> name, socket |-> socket, listed |-> Range(GetSockets(m))]

\* ------------------------------------------------------------------ EventMap
\* a getSubject that makes a new BehaviorSubject(null) every time
GetSubject_Reset(map, eventName) ==
    [n \in DOMAIN map \cup {eventName} |->
        IF n = eventName THEN Null ELSE map[n]]

\* getSubject: a missing subject is created holding null.
GetSubject(map, eventName) ==
    IF eventName \in DOMAIN map THEN map ELSE map @@ (eventName :> Null)

\* pushMessage: getSubject, then next(data).
PushMessage(map, eventName, data) ==
    [GetSubject(map, eventName) EXCEPT ![eventName] = data]

\* fromEvent: getSubject(eventName).asObservable().
FromEventMap(map, eventName) == GetSubject(map, eventName)

\* BehaviorSubject.next(data), the second half of pushMessage: every observer
\* subscribed to the subject and not unsubscribed is given data, in the order
\* of subscription.
SubjectNext(obs, eventName, data) ==
    [i \in 1..Len(obs) |->
        IF obs[i].name = eventName /\ obs[i].active
        THEN [obs[i] EXCEPT !.received = Append(@, data)]
        ELSE obs[i]]

\* a subject that replays nothing: the new observer starts from null
SubjectSubscribe_NoReplay(obs, map, eventName) ==
    Append(obs, [name |-> eventName, received |-> <<Null>>, active |-> TRUE])

\* subscribe on the observable fromEvent returns: the new observer is given
\* the subject's current value at once.
SubjectSubscribe(obs, map, eventName) ==
    Append(obs, [name |-> eventName,
                 received |-> <<GetSubject(map, eventName)[eventName]>>,
                 active |-> TRUE])

\* an unsubscribe that ends every subscription on the same subject
SubjectUnsubscribe_All(obs, i) ==
    [k \in 1..Len(obs) |->
        [obs[k] EXCEPT !.active = @ /\ obs[k].name # obs[i].name]]

\* Subscription.unsubscribe of the i-th subscription
SubjectUnsubscribe(obs, i) == [obs EXCEPT ![i].active = FALSE]

\* ----------------------------------------------------------- SocketConnection
\* send: JSON.stringify(message), connection.send(rawMessage); one call recorded.
Send(socket, message) == <<[socket |-> socket, message |-> message]>>

\* An inbound frame (IMessage): its type and, for utf8, its text.  A text is the
\* sequence of its JSON tokens.
Utf8(text) == [type |-> "utf8", utf8Data |-> text]

Binary == [type |-> "binary", utf8Data |-> <<>>]

\* the text of { "type": type, "message": { "event": event } }
FrameText(type, event) ==
    <<"{", "type", type, "message", "{", "event", event, "}", "}">>

\* a text cut off after its type: JSON.parse throws a SyntaxError on it
CutText(type) == <<"{", "type", type>>

\* whether JSON.parse accepts the text
JSONParses(text) ==
    /\ Len(text) = 9
    /\ <<text[1], text[2], text[4], text[5], text[6], text[8], text[9]>>
         = <<"{", "type", "message", "{", "event", "}", "}">>

JSONParse(text) == [type |-> text[3], message |-> [event |-> text[7]]]

\* parseMessage: the parsed text, or the raw frame itself (whose type is "utf8"
\* or "binary" and which has no message) when it is binary, empty or not JSON.
ParseMessage(rawMessage) ==
    IF rawMessage.type = "utf8" /\ rawMessage.utf8Data # <<>>
       /\ JSONParses(rawMessage.utf8Data)
    THEN JSONParse(rawMessage.utf8Data)
    ELSE [type |-> rawMessage.type, message |-> Undefined]

\* ---------------------------------------------------------- AutoupdateHandler
EventMessage(event, data) == [event |-> event, data |-> data]

\* subscribe: (socketMap[event] || []).push(socket)
AutoupdateSubscribe(map, event, socket) ==
    IF event \in DOMAIN map
    THEN [map EXCEPT ![event] = Append(@, socket)]
    ELSE map @@ (event :> <<socket>>)

\* a findIndex that settles on the first entry, whose ever it is
FindIndex_First(list, socket) == IF list = <<>> THEN 0 ELSE 1

\* findIndex(_socket => _socket.id === socket.id): 0 stands for -1
FindIndex(list, socket) ==
    IF \E i \in 1..Len(list) : connections[list[i]].id = connections[socket].id
    THEN CHOOSE i \in 1..Len(list) :
            /\ connections[list[i]].id = connections[socket].id
            /\ \A j \in 1..(i - 1) : connections[list[j]].id # connections[socket].id
    ELSE 0

\* splice(index): everything from the index on is removed
Splice_FromIndex(list, index) == SubSeq(list, 1, index - 1)

\* splice(index, 1)
Splice(list, index) ==
    [i \in 1..(Len(list) - 1) |-> IF i < index THEN list[i] ELSE list[i + 1]]

\* unsubscribe throws a TypeError when socketMap[event] is undefined
AutoupdateUnsubscribeThrows(map, event) == event \notin DOMAIN map

AutoupdateUnsubscribe(map, event, socket) ==
    IF AutoupdateUnsubscribeThrows(map, event)
    THEN map
    ELSE IF FindIndex(map[event], socket) > 0
         THEN [map EXCEPT ![event] = Splice(@, FindIndex(map[event], socket))]
         ELSE map

\* publish: `for (const socket of undefined)` throws a TypeError
AutoupdatePublishThrows(map, event) == event \notin DOMAIN map

RECURSIVE SendEach(_, _)
SendEach(list, message) ==
    IF list = <<>> THEN <<>>
    ELSE Send(Head(list), message) \o SendEach(Tail(list), message)

\* publish(event, data): socket.send({ event, data }) for every array entry
AutoupdatePublish(map, event, data) ==
    IF AutoupdatePublishThrows(map, event)
    THEN <<>>
    ELSE SendEach(map[event], EventMessage(event, data))

\* ----------------------------------------------------------- WebsocketHandler
\* sendToSocket: this.sockets.get(socket)?.send(message)
SendToSocket(key, message) ==
    IF MapHas(sockets, key) THEN Send(MapGet(sockets, key), message) ELSE <<>>

\* the callback sends to every key
NotOmitted_Always(key, omittedSocket) == TRUE

\* the test of broadcastExceptOne's forEach callback
NotOmitted(key, omittedSocket) == key # omittedSocket

RECURSIVE ForEachKey(_, _, _)
ForEachKey(keys, omittedSocket, message) ==
    IF keys = <<>> THEN <<>>
    ELSE (IF NotOmitted(Head(keys), omittedSocket)
          THEN SendToSocket(Head(keys), message) ELSE <<>>)
         \o ForEachKey(Tail(keys), omittedSocket, message)

RECURSIVE ForEachKeyAll(_, _)
ForEachKeyAll(keys, message) ==
    IF keys = <<>> THEN <<>>
    ELSE SendToSocket(Head(keys), message) \o ForEachKeyAll(Tail(keys), message)

Init ==
    /\ connections = [c \in Conns |-> [status |-> "none", id |-> NoId]]
    /\ sockets = <<>>
    /\ socketMap = <<>>
    /\ mapEvents = <<>>
    /\ observers = <<>>
    /\ op = [name |-> "init"]
    /\ sent = <<>>
    /\ hooks = <<>>
    /\ error = FALSE

\* the origin check turns the request down
OriginRejected_Never(originAllowed) == FALSE

\* onRequest's test: !this._isOriginAllowed(request.origin)
OriginRejected(originAllowed) == ~originAllowed

\* onRequest: the origin check, accept, RandomString, createSocket, the
\* onClientConnect hook and then sockets.set(id, socket).
\* Connection objects are numbered in the order of their creation and the
\* strings RandomString returns in the order of their first appearance: the
\* string is one already handed out (a collision) or the next new one.
OnRequest(c, originAllowed, id) ==
    /\ connections[c].status = "none"
    /\ \A d \in Conns : d < c => connections[d].status # "none"
    /\ \A i \in Ids : i < id => \E d \in Conns : connections[d].id = i
    /\ IF OriginRejected(originAllowed)
       THEN /\ op' = [name |-> "request", originAllowed |-> originAllowed,
                      socket |-> NoSocket, id |-> NoId]
            /\ hooks' = <<>>
            /\ UNCHANGED <<connections, sockets>>
       ELSE /\ connections' = [connections EXCEPT ![c] = [status |-> "open", id |-> id]]
            /\ op' = [name |-> "request", originAllowed |-> originAllowed,
                      socket |-> c, id |-> id]
            /\ hooks' = <<Hook("onClientConnect", c, sockets)>>
            /\ sockets' = MapSet(sockets, id, c)
    /\ sent' = <<>>
    /\ error' = FALSE
    /\ UNCHANGED <<socketMap, mapEvents, observers>>

\* the close callback of createSocket: sockets.delete(socket.id), then the
\* onClientDisconnect hook
OnClose(c) ==
    /\ connections[c].status = "open"
    /\ connections' = [connections EXCEPT ![c].status = "closed"]
    /\ sockets' = MapDelete(sockets, connections[c].id)
    /\ hooks' = <<Hook("onClientDisconnect", c, sockets')>>
    /\ op' = [name |-> "close", socket |-> c, id |-> connections[c].id]
    /\ sent' = <<>>
    /\ error' = FALSE
    /\ UNCHANGED <<socketMap, mapEvents, observers>>

\* a SocketDto that does not name its sender
SocketDto_Anonymous(socketId, data) == [socketId |-> NoId, data |-> data]

\* SocketDto of an inbound frame
SocketDto(socketId, data) == [socketId |-> socketId, data |-> data]

\* the message callback of createSocket: pushMessage on the frame's type, then
\* the switch on the type.  A throw in a case leaves the push done.
OnMessage(c, rawMessage) ==
    LET parsedMessage == ParseMessage(rawMessage)
        type == parsedMessage.type
        event == IF parsedMessage.message = Undefined THEN ""
                 ELSE parsedMessage.message.event
    IN  /\ connections[c].status = "open"
        /\ \A i \in 1..Len(observers) :
              (observers[i].name = type /\ observers[i].active)
                  => Len(observers[i].received) < MaxReceived
        /\ mapEvents' = PushMessage(mapEvents, type,
                                    SocketDto(connections[c].id, parsedMessage.message))
        /\ observers' = SubjectNext(observers, type,
                                    SocketDto(connections[c].id, parsedMessage.message))
        /\ op' = [name |-> "message", socket |-> c, id |-> connections[c].id,
                  raw |-> rawMessage,
                  type |-> type, message |-> parsedMessage.message]
        /\ sent' = <<>>
        /\ CASE type = "subscribe" ->
                  /\ event \in DOMAIN socketMap => Len(socketMap[event]) < MaxSubs
                  /\ socketMap' = AutoupdateSubscribe(socketMap, event, c)
                  /\ hooks' = <<>>
                  /\ error' = FALSE
             [] type = "unsubscribe" ->
                  /\ socketMap' = AutoupdateUnsubscribe(socketMap, event, c)
                  /\ hooks' = <<>>
                  /\ error' = AutoupdateUnsubscribeThrows(socketMap, event)
             [] OTHER ->
                  /\ hooks' = <<Hook("onClientSend", c, sockets)>>
                  /\ error' = FALSE
                  /\ UNCHANGED socketMap
        /\ UNCHANGED <<connections, sockets>>

\* the SocketConnection objects host code can hold: those created so far
Created(c) == connections[c].status # "none"

\* WebsocketHandler.subscribe(event, socket).  The host subscribes connections
\* that are open, as clients do by a SUBSCRIBE frame.
Subscribe(event, c) ==
    /\ connections[c].status = "open"
    /\ event \in DOMAIN socketMap => Len(socketMap[event]) < MaxSubs
    /\ socketMap' = AutoupdateSubscribe(socketMap, event, c)
    /\ op' = [name |-> "subscribe", socket |-> c, id |-> connections[c].id,
              event |-> event]
    /\ sent' = <<>>
    /\ hooks' = <<>>
    /\ error' = FALSE
    /\ UNCHANGED <<connections, sockets, mapEvents, observers>>

\* WebsocketHandler.unsubscribe(event, socket)
Unsubscribe(event, c) ==
    /\ Created(c)
    /\ socketMap' = AutoupdateUnsubscribe(socketMap, event, c)
    /\ error' = AutoupdateUnsubscribeThrows(socketMap, event)
    /\ op' = [name |-> "unsubscribe", socket |-> c, id |-> connections[c].id,
              event |-> event]
    /\ sent' = <<>>
    /\ hooks' = <<>>
    /\ UNCHANGED <<connections, sockets, mapEvents, observers>>

\* what a host call returns: the observable of a subject of the event map
Observable(eventName) == [observable |-> eventName]

\* WebsocketHandler.publish(event, data), which returns nothing:
\* this.autoupdateHandler.publish(event, { event, data })
Publish(event, data) ==
    /\ sent' = AutoupdatePublish(socketMap, event, EventMessage(event, data))
    /\ error' = AutoupdatePublishThrows(socketMap, event)
    /\ op' = [name |-> "publish", event |-> event, data |-> data,
              returns |-> Undefined]
    /\ hooks' = <<>>
    /\ UNCHANGED <<connections, sockets, socketMap, mapEvents, observers>>

\* broadcastExceptOne(omittedSocket, message)
BroadcastExceptOne(omittedSocket, message) ==
    /\ mapEvents' = FromEventMap(mapEvents, message.event)
    /\ sent' = ForEachKey(MapKeys(sockets), omittedSocket, message)
    /\ op' = [name |-> "broadcastExceptOne", omittedSocket |-> omittedSocket,
              message |-> message, returns |-> Observable(message.event)]
    /\ hooks' = <<>>
    /\ error' = FALSE
    /\ UNCHANGED <<connections, sockets, socketMap, observers>>

\* broadcastAll(message)
BroadcastAll(message) ==
    /\ mapEvents' = FromEventMap(mapEvents, message.event)
    /\ sent' = ForEachKeyAll(MapKeys(sockets), message)
    /\ op' = [name |-> "broadcastAll", message |-> message,
              returns |-> Observable(message.event)]
    /\ hooks' = <<>>
    /\ error' = FALSE
    /\ UNCHANGED <<connections, sockets, socketMap, observers>>

\* emit(socket, message)
Emit(key, message) ==
    /\ mapEvents' = FromEventMap(mapEvents, message.event)
    /\ sent' = SendToSocket(key, message)
    /\ op' = [name |-> "emit", socket |-> key, message |-> message,
              returns |-> Observable(message.event)]
    /\ hooks' = <<>>
    /\ error' = FALSE
    /\ UNCHANGED <<connections, sockets, socketMap, observers>>

\* the filter of broadcastByFunction keeps every key
FilterKeys_None(keys, omittedSocket) == keys

\* broadcastByFunction's filter over Array.from(this.sockets.keys()):
\* socket !== omittedSocket
FilterKeys(keys, omittedSocket) == SelectSeq(keys, LAMBDA k : k # omittedSocket)

\* broadcastByFunction's loop: sendToSocket(socket, fn(socket)) for each key
\* of the array
RECURSIVE ForEachSocket(_, _)
ForEachSocket(keys, fn) ==
    IF keys = <<>> THEN <<>>
    ELSE SendToSocket(Head(keys), fn[Head(keys)]) \o ForEachSocket(Tail(keys), fn)

\* broadcastByFunction(fn, omittedSocket), which returns nothing and leaves
\* the event map alone; op.calls lists the keys fn was called with
BroadcastByFunction(fn, omittedSocket) ==
    LET keys == FilterKeys(MapKeys(sockets), omittedSocket)
    IN  /\ sent' = ForEachSocket(keys, fn)
        /\ op' = [name |-> "broadcastByFunction", omittedSocket |-> omittedSocket,
                  fn |-> fn, calls |-> keys, returns |-> Undefined]
        /\ hooks' = <<>>
        /\ error' = FALSE
        /\ UNCHANGED <<connections, sockets, socketMap, mapEvents, observers>>

\* host code subscribes to fromEvent(event)
FromEvent(event) ==
    /\ Len(observers) < MaxObservers
    /\ mapEvents' = FromEventMap(mapEvents, event)
    /\ observers' = SubjectSubscribe(observers, mapEvents, event)
    /\ op' = [name |-> "fromEvent", event |-> event,
              returns |-> Observable(event)]
    /\ sent' = <<>>
    /\ hooks' = <<>>
    /\ error' = FALSE
    /\ UNCHANGED <<connections, sockets, socketMap>>

\* host code unsubscribes its i-th subscription
Cancel(i) ==
    /\ i \in 1..Len(observers)
    /\ observers[i].active
    /\ observers' = SubjectUnsubscribe(observers, i)
    /\ op' = [name |-> "cancel", observer |-> i]
    /\ sent' = <<>>
    /\ hooks' = <<>>
    /\ error' = FALSE
    /\ UNCHANGED <<connections, sockets, socketMap, mapEvents>>

Messages == {EventMessage(t, d) : t \in Topics, d \in Payloads}

\* the functions host code hands to broadcastByFunction: a message per key
Fns == {[k \in Ids |-> EventMessage(t, [x |-> k])] : t \in Topics}

\* the message types clients send
MessageTypes == {"subscribe", "unsubscribe", "to"}

\* well-formed SUBSCRIBE and UNSUBSCRIBE frames
SubscriptionFrames ==
    {Utf8(FrameText(ty, t)) : ty \in {"subscribe", "unsubscribe"}, t \in Topics}

RawMessages ==
    {Utf8(FrameText(ty, t)) : ty \in MessageTypes, t \in Topics}
    \cup {Utf8(CutText("subscribe")), Binary}

\* the frames whose values the observers of the event map are shown: a TO
\* frame and a binary frame, each a different value from each sender
BusFrames == {Utf8(FrameText("to", "rooms")), Binary}

\* the subjects host code observes
BusNames == {"to", "binary"}

\* the messages host code sends while the event map is observed: one on an
\* event clients push frames on, one on an event of the host's own
ChannelMessages == {EventMessage(e, [x |-> 1]) : e \in {"to", "rooms"}}

\* a decodable frame of each kind in MessageTypes
KindFrames == {Utf8(FrameText(ty, "rooms")) : ty \in MessageTypes}

\* one frame of every kind the switch tells apart, the declared kinds it
\* leaves to the default case, a kind never declared, and the frames
\* parseMessage cannot decode
DispatchFrames ==
    {Utf8(FrameText(ty, "rooms")) :
        ty \in {"subscribe", "unsubscribe", "to", "broadcast", "server", "ping"}}
    \cup {Utf8(CutText("subscribe")), Binary}

\* connections come and go
NextLifecycle ==
    \/ \E c \in Conns, a \in BOOLEAN, id \in Ids : OnRequest(c, a, id)
    \/ \E c \in Conns : OnClose(c)

\* clients and host subscribe and unsubscribe, the host publishes
NextTopics ==
    \/ NextLifecycle
    \/ \E c \in Conns, r \in SubscriptionFrames : OnMessage(c, r)
    \/ \E t \in Topics, c \in Conns : Subscribe(t, c)
    \/ \E t \in Topics, c \in Conns : Unsubscribe(t, c)
    \/ \E t \in Topics, d \in Payloads : Publish(t, d)

\* the host addresses one connection, all or all but one
NextRegistry ==
    \/ NextLifecycle
    \/ \E k \in Ids, m \in Messages : BroadcastExceptOne(k, m)
    \/ \E m \in Messages : BroadcastAll(m)
    \/ \E k \in Ids, m \in Messages : Emit(k, m)
    \/ \E f \in Fns, k \in Ids : BroadcastByFunction(f, k)

\* clients send frames, host code observes the subjects they are pushed on
NextBus ==
    \/ NextLifecycle
    \/ \E c \in Conns, r \in BusFrames : OnMessage(c, r)
    \/ \E e \in BusNames : FromEvent(e)
    \/ \E i \in 1..MaxObservers : Cancel(i)

\* clients send frames, host code observes the subjects and sends messages,
\* which name subjects too
NextChannels ==
    \/ NextLifecycle
    \/ \E c \in Conns, r \in BusFrames : OnMessage(c, r)
    \/ \E e \in BusNames : FromEvent(e)
    \/ \E k \in Ids, m \in ChannelMessages : Emit(k, m)
    \/ \E m \in ChannelMessages : BroadcastAll(m)
    \/ \E k \in Ids, m \in ChannelMessages : BroadcastExceptOne(k, m)

\* clients send decodable frames, host code observes the subjects of their
\* kinds
NextKinds ==
    \/ NextLifecycle
    \/ \E c \in Conns, r \in KindFrames : OnMessage(c, r)
    \/ \E e \in MessageTypes : FromEvent(e)

\* clients send frames of every kind
NextFrames ==
    \/ NextLifecycle
    \/ \E c \in Conns, r \in DispatchFrames : OnMessage(c, r)

Next ==
    \/ NextTopics
    \/ NextRegistry
    \/ NextBus
    \/ NextChannels
    \/ NextKinds
    \/ NextFrames
    \/ \E c \in Conns, r \in RawMessages : OnMessage(c, r)

\* the whole router
Spec == Init /\ [][Next]_vars

\* the topic table and its callers
SpecTopics == Init /\ [][NextTopics]_vars

\* the registry and the fan-out over it
SpecRegistry == Init /\ [][NextRegistry]_vars

\* the event map and its observers
SpecBus == Init /\ [][NextBus]_vars

\* the subjects of the event map, made by pushes, observers and sending calls
SpecChannels == Init /\ [][NextChannels]_vars

\* the push of the message callback, seen by observers
SpecKinds == Init /\ [][NextKinds]_vars

\* the switch of the message callback
SpecFrames == Init /\ [][NextFrames]_vars

\* ------------------------------------------------------------------- claims
\* the subscriber array of a topic; none when the topic was never subscribed to
Subscribers(t) == IF t \in DOMAIN socketMap THEN socketMap[t] ELSE <<>>

\* how many times the last handler called send on connection c
SentCount(c) == Cardinality({i \in 1..Len(sent) : sent[i].socket = c})

\* c is a value of the registry
Registered(c) == c \in Range(MapValues(sockets))

\* the last handler was an unsubscribe of op.socket, by the host or by a frame
LastUnsubscribe ==
    \/ op.name = "unsubscribe"
    \/ op.name = "message" /\ op.type = "unsubscribe"

LastUnsubscribeTopic ==
    IF op.name = "unsubscribe" THEN op.event ELSE op.message.event

\* C1: after publish(T, M) every connection subscribed to T was sent exactly
\* one envelope, that envelope is {event: T, data: M}, and a connection not
\* subscribed to T was sent nothing.
C1_PublishDeliversOneEnvelope ==
    op.name = "publish" =>
        \A c \in Conns :
            IF c \in Range(Subscribers(op.event))
            THEN /\ SentCount(c) = 1
                 /\ \A i \in 1..Len(sent) :
                        sent[i].socket = c =>
                            sent[i].message = EventMessage(op.event, op.data)
            ELSE SentCount(c) = 0

\* C2: when the close callback of connection A has run, A is not listed by
\* getSockets() and is in no topic's subscriber array.
C2_CloseRemovesEverywhere ==
    op.name = "close" =>
        /\ op.id \notin Range(GetSockets(sockets))
        /\ \A t \in DOMAIN socketMap : op.socket \notin Range(socketMap[t])

\* C3: a publish on a topic that a closed connection is still subscribed to
\* throws nothing and calls send on no closed connection.
C3_PublishSkipsClosed ==
    op.name = "publish" =>
        \A c \in Conns :
            (connections[c].status = "closed" /\ c \in Range(Subscribers(op.event)))
                => (~error /\ SentCount(c) = 0)

\* C4: in every reachable state a connection is at most once in the subscriber
\* array of a topic.
C4_AtMostOncePerTopic ==
    \A t \in DOMAIN socketMap :
        \A i, j \in 1..Len(socketMap[t]) :
            socketMap[t][i] = socketMap[t][j] => i = j

\* C5: after unsubscribe(T, A), whatever the number of earlier subscribe(T, A),
\* A is not a subscriber of T (so that no later publish reaches it).
C5_UnsubscribedIsGone ==
    (LastUnsubscribe /\ ~error) =>
        op.socket \notin Range(Subscribers(LastUnsubscribeTopic))

\* C6: unsubscribe(T, A) never throws, also when T was never subscribed to.
C6_UnsubscribeNeverFails == LastUnsubscribe => ~error

\* C7: publish(T, M) on a topic without subscribers, never subscribed to or
\* emptied by unsubscribes, throws nothing and sends nothing.
C7_PublishWithoutSubscribers ==
    (op.name = "publish" /\ Subscribers(op.event) = <<>>) =>
        (~error /\ sent = <<>>)

\* C8: an accepted request whose identifier is already a key of the registry
\* fails and leaves the registry as it was.
C8_DuplicateIdentifierRejected ==
    [][(op'.name = "request" /\ op'.originAllowed /\ MapHas(sockets, op'.id))
          => (error' /\ sockets' = sockets)]_vars

\* C9: a request whose origin check returns false changes neither the
\* connections, the registry, the topic table nor the event map, and calls no
\* hook.
C9_RejectTouchesNothing ==
    [][(op'.name = "request" /\ ~op'.originAllowed)
          => (/\ UNCHANGED <<connections, sockets, socketMap, mapEvents>>
              /\ GetSockets(sockets') = GetSockets(sockets)
              /\ hooks' = <<>>
              /\ sent' = <<>>)]_vars

\* a request was turned down while the registry, the topic table and the
\* event map all held something
C9_Witness ==
    /\ op.name = "request"
    /\ ~op.originAllowed
    /\ sockets # <<>>
    /\ DOMAIN socketMap # {}
    /\ DOMAIN mapEvents # {}

\* C10: broadcastExceptOne(A, message) calls send exactly once, with message,
\* on every registered connection whose identifier is not A and on no other;
\* broadcastAll(message) exactly once on every registered connection.
C10_BroadcastReachesRegistry ==
    /\ op.name = "broadcastExceptOne" =>
          /\ \A c \in Conns :
                SentCount(c) =
                    IF Registered(c) /\ connections[c].id # op.omittedSocket
                    THEN 1 ELSE 0
          /\ \A i \in 1..Len(sent) : sent[i].message = op.message
    /\ op.name = "broadcastAll" =>
          /\ \A c \in Conns : SentCount(c) = IF Registered(c) THEN 1 ELSE 0
          /\ \A i \in 1..Len(sent) : sent[i].message = op.message

\* two connections are registered, one of them is the omitted one and the
\* other was sent the message
C10_Witness ==
    /\ op.name = "broadcastExceptOne"
    /\ Len(sockets) = 2
    /\ MapHas(sockets, op.omittedSocket)
    /\ Len(sent) = 1
\* the value the subject of an event holds; null when the event map has none
Latest(eventName) ==
    IF eventName \in DOMAIN mapEvents THEN mapEvents[eventName] ELSE Null

\* the i-th subscription is on the subject of eventName and not cancelled
Observing(i, eventName) == observers[i].name = eventName /\ observers[i].active

\* C11: a new subscriber of a channel is given at once the value the channel
\* holds (the sentinel null when nothing was published on it) and nothing
\* else; every value published afterwards is appended, once and in publish
\* order, to what each subscriber of the channel has received, and a
\* subscriber's last value is the one the channel holds.
C11_ReplayLatestThenLive ==
    [][ /\ Len(observers') = Len(observers) + 1 =>
              /\ SubSeq(observers', 1, Len(observers)) = observers
              /\ observers'[Len(observers')].received
                     = <<Latest(observers'[Len(observers')].name)>>
        /\ op'.name = "message" =>
              /\ Len(observers') = Len(observers)
              /\ \A i \in 1..Len(observers) :
                    observers'[i].received =
                        IF Observing(i, op'.type)
                        THEN Append(observers[i].received, mapEvents'[op'.type])
                        ELSE observers[i].received
        /\ \A i \in 1..Len(observers') :
              observers'[i].active =>
                  observers'[i].received[Len(observers'[i].received)]
                      = mapEvents'[observers'[i].name]
      ]_vars

\* a subscriber that came after a first value was given that value, a second
\* and a different third
C11_Witness ==
    \E i \in 1..Len(observers) :
        /\ observers[i].active
        /\ Len(observers[i].received) = 3
        /\ observers[i].received[1] # Null
        /\ observers[i].received[2] # observers[i].received[1]
        /\ observers[i].received[3] # observers[i].received[2]

\* C12: cancelling one subscription leaves the channel and its value in the
\* event map and every other subscription as they were; a cancelled
\* subscription is given nothing further, and the subscriptions still active
\* on the channel go on receiving every value published on it.
C12_CancelIsLocal ==
    [][ /\ \A i \in 1..Len(observers) :
              ~observers[i].active => observers'[i] = observers[i]
        /\ op'.name = "cancel" =>
              /\ mapEvents' = mapEvents
              /\ Len(observers') = Len(observers)
              /\ ~observers'[op'.observer].active
              /\ observers'[op'.observer].received
                     = observers[op'.observer].received
              /\ \A j \in 1..Len(observers) :
                    j # op'.observer => observers'[j] = observers[j]
        /\ (op'.name = "message"
             /\ \E i \in 1..Len(observers) :
                   observers[i].name = op'.type /\ ~observers[i].active) =>
              \A j \in 1..Len(observers) :
                  Observing(j, op'.type) =>
                      /\ observers'[j].active
                      /\ observers'[j].received
                             = Append(observers[j].received, mapEvents'[op'.type])
      ]_vars

\* a frame was pushed on a channel with a cancelled subscription and a later,
\* active one that has been given more than its first value
C12_Witness ==
    /\ op.name = "message"
    /\ \E i, j \in 1..Len(observers) :
          /\ i < j
          /\ observers[i].name = op.type /\ ~observers[i].active
          /\ observers[j].name = op.type /\ observers[j].active
          /\ Len(observers[j].received) >= 2
          /\ observers[j].received[Len(observers[j].received)]
                 = SocketDto(op.id, op.message)
\* the frame is one parseMessage cannot decode: a binary frame, or a text
\* JSON.parse rejects
Undecodable(rawMessage) ==
    rawMessage.type # "utf8" \/ ~JSONParses(rawMessage.utf8Data)

\* C13: an inbound frame that cannot be decoded is dropped: the registry, the
\* subscription table and the event bus are as before, the connection stays
\* open and registered, nothing is sent and no hook is called.
C13_UndecodableFrameDropped ==
    [][ (op'.name = "message" /\ Undecodable(op'.raw)) =>
            /\ UNCHANGED <<connections, sockets, socketMap, mapEvents, observers>>
            /\ sent' = <<>>
            /\ hooks' = <<>>
      ]_vars
\* C14: a decoded inbound frame, whatever its kind, is published once on the
\* event-bus channel named by its kind, as a value carrying the sender's
\* identifier and the frame's payload: that value is the channel's latest value
\* afterwards, each subscriber of the channel is given it once, and no other
\* subscriber is given anything.
C14_FramePublishedOnItsKind ==
    [][ (op'.name = "message" /\ ~Undecodable(op'.raw)) =>
            LET kind == op'.raw.utf8Data[3]
                value == [socketId |-> connections[op'.socket].id,
                          data |-> [event |-> op'.raw.utf8Data[7]]]
            IN  /\ DOMAIN mapEvents' = DOMAIN mapEvents \cup {kind}
                /\ mapEvents'[kind] = value
                /\ Len(observers') = Len(observers)
                /\ \A i \in 1..Len(observers) :
                      observers'[i].received =
                          IF Observing(i, kind)
                          THEN Append(observers[i].received, value)
                          ELSE observers[i].received
      ]_vars

\* an UNSUBSCRIBE frame that made the switch throw was pushed all the same, to
\* a subscriber that had seen an earlier frame of the kind
C14_Witness ==
    /\ op.name = "message"
    /\ op.type = "unsubscribe"
    /\ error
    /\ \E j \in 1..Len(observers) :
          /\ Observing(j, "unsubscribe")
          /\ Len(observers[j].received) = 3
          /\ observers[j].received[3] = SocketDto(op.id, op.message)
          /\ observers[j].received[2] # observers[j].received[3]
\* the list with its i-th entry taken out
Without(list, i) == SubSeq(list, 1, i - 1) \o SubSeq(list, i + 1, Len(list))

\* C15: the router handles a decoded frame by its kind alone.  SUBSCRIBE adds
\* the sender to the topic named in the payload and does nothing else to the
\* table; UNSUBSCRIBE takes one entry of the sender's identifier out of that
\* topic, or none when there is none; any other kind, declared or not, goes
\* once to the onClientSend hook and leaves the table alone.  No inbound frame
\* sends anything or changes the registry.
C15_RouterDispatch ==
    [][ op'.name = "message" =>
          /\ sent' = <<>>
          /\ UNCHANGED <<connections, sockets>>
          /\ ~Undecodable(op'.raw) =>
                LET kind == op'.raw.utf8Data[3]
                    topic == op'.raw.utf8Data[7]
                    c == op'.socket
                    before == Subscribers(topic)
                    after == IF topic \in DOMAIN socketMap'
                             THEN socketMap'[topic] ELSE <<>>
                    Mine == {i \in 1..Len(before) :
                                connections[before[i]].id = connections[c].id}
                IN  /\ \A t \in (DOMAIN socketMap \cup DOMAIN socketMap') \ {topic} :
                          /\ t \in DOMAIN socketMap /\ t \in DOMAIN socketMap'
                          /\ socketMap'[t] = socketMap[t]
                    /\ kind = "subscribe" =>
                          /\ after = Append(before, c)
                          /\ hooks' = <<>>
                    /\ kind = "unsubscribe" =>
                          /\ IF Mine = {} THEN after = before
                             ELSE \E i \in Mine : after = Without(before, i)
                          /\ hooks' = <<>>
                    /\ kind \notin {"subscribe", "unsubscribe"} =>
                          /\ socketMap' = socketMap
                          /\ Len(hooks') = 1
                          /\ hooks'[1].hook = "onClientSend"
                          /\ hooks'[1].socket = c
      ]_vars

\* a BROADCAST frame arrived while two connections were registered and one
\* subscribed: it went to the hook and to nobody else
C15_Witness ==
    /\ op.name = "message"
    /\ op.type = "broadcast"
    /\ Len(MapKeys(sockets)) = 2
    /\ Subscribers("rooms") # <<>>
    /\ sent = <<>>
    /\ Len(hooks) = 1
    /\ hooks[1].hook = "onClientSend"
\* the last handler was one of the host's sending calls
LastSendingCall ==
    op.name \in {"emit", "broadcastAll", "broadcastExceptOne", "publish"}

\* C16: unicast, the broadcasts and publish never raise an error for want of
\* recipients and always return a stream handle: a unicast to an identifier
\* that is not registered sends nothing, and so does a publish on a topic
\* without subscribers.
C16_NoRecipientsNoError ==
    LastSendingCall =>
        /\ ~error
        /\ op.returns # Undefined
        /\ (op.name = "emit" /\ ~MapHas(sockets, op.socket)) => sent = <<>>
        /\ (op.name = "publish" /\ Subscribers(op.event) = <<>>) => sent = <<>>

\* C17: a publish on a topic records the value on the event bus as well: once
\* the call has returned, the latest value of the channel of that name is the
\* published value, whether or not the topic has subscribers.
C17_PublishRecordedOnBus ==
    (op.name = "publish" /\ ~error) => Latest(op.event) = op.data
\* C18: when the onClientConnect hook runs for a newly accepted connection,
\* the connection is already registered: the hook finds it among the
\* connections getSockets lists.
C18_RegisteredBeforeConnectHook ==
    \A i \in 1..Len(hooks) :
        hooks[i].hook = "onClientConnect" => hooks[i].socket \in hooks[i].listed

\* the last handler was one of the three broadcasts
LastBroadcast(o) ==
    o.name \in {"broadcastAll", "broadcastExceptOne", "broadcastByFunction"}

\* the identifier a broadcast leaves out; broadcastAll leaves out none
Omitted(o) == IF o.name = "broadcastAll" THEN NoId ELSE o.omittedSocket

C20_CloseRemovesOnlyItsOwn ==
    [][ op'.name = "close" =>
          \A y \in Conns \ {op'.socket} :
              (connections[y].status = "open" /\ Registered(y)) => Registered(y)'
      ]_vars
\* the step was a subscribe or an unsubscribe, by the host or by a frame
TopicOperation(o) ==
    \/ o.name \in {"subscribe", "unsubscribe"}
    \/ o.name = "message" /\ o.type \in {"subscribe", "unsubscribe"}

\* what a subscribe or unsubscribe does: the host call's name, a frame's type
OperationKind(o) == IF o.name = "message" THEN o.type ELSE o.name

\* the topic of a subscribe or unsubscribe
OperationTopic(o) == IF o.name = "message" THEN o.message.event ELSE o.event

\* C21: subscribe(T, A) and unsubscribe(T, A) change only the entry of A in
\* topic T: subscribe appends A to T's subscribers, unsubscribe takes one
\* entry of A's identifier out of them (none when there is none), the other
\* entries of T keep their order, every other topic and the registry are as
\* before, and a host call leaves the event bus as it was.  publish(T, M)
\* changes neither the subscription table nor the registry.
C21_TopicOperationsFrame ==
    [][ /\ TopicOperation(op') =>
              LET topic == OperationTopic(op')
                  c == op'.socket
                  before == Subscribers(topic)
                  after == IF topic \in DOMAIN socketMap'
                           THEN socketMap'[topic] ELSE <<>>
                  Mine == {i \in 1..Len(before) :
                              connections[before[i]].id = connections[c].id}
              IN  /\ UNCHANGED <<connections, sockets>>
                  /\ \A t \in (DOMAIN socketMap \cup DOMAIN socketMap') \ {topic} :
                        /\ t \in DOMAIN socketMap /\ t \in DOMAIN socketMap'
                        /\ socketMap'[t] = socketMap[t]
                  /\ OperationKind(op') = "subscribe" => after = Append(before, c)
                  /\ OperationKind(op') = "unsubscribe" =>
                        IF Mine = {} THEN after = before
                        ELSE \E i \in Mine : after = Without(before, i)
                  /\ op'.name # "message" => UNCHANGED <<mapEvents, observers>>
        /\ op'.name = "publish" => UNCHANGED <<connections, sockets, socketMap>>
      ]_vars

\* the host unsubscribed a connection from a topic that keeps a subscriber of
\* another identifier, while the other topic has subscribers and a frame has
\* left a value on the event bus
C21_Witness ==
    /\ op.name = "unsubscribe"
    /\ ~error
    /\ Len(Subscribers(op.event)) = 1
    /\ connections[Subscribers(op.event)[1]].id # op.id
    /\ \E t \in Topics \ {op.event} : Len(Subscribers(t)) = 2
    /\ Len(MapKeys(sockets)) = 2
    /\ DOMAIN mapEvents # {}
\* the channel an inbound frame is published on: the kind of a decoded frame,
\* the frame's own type when it cannot be decoded
PublishedOn(rawMessage) ==
    IF Undecodable(rawMessage) THEN rawMessage.type ELSE rawMessage.utf8Data[3]

\* the calls that return the stream of a channel without publishing on it
StreamCall(o) ==
    o.name \in {"fromEvent", "emit", "broadcastAll", "broadcastExceptOne"}

\* the channel such a call names
StreamChannel(o) == IF o.name = "fromEvent" THEN o.event ELSE o.message.event

\* C22: the channels of the event bus are isolated and persistent.  A publish
\* on a channel changes the latest value of no other channel and gives nothing
\* to a subscriber of another channel; observing a channel, a unicast and a
\* broadcast create the channel they name when it is missing, holding the
\* sentinel null, and change the latest value of no channel that exists; no
\* step removes a channel.
C22_ChannelsIsolatedAndPersistent ==
    [][ /\ DOMAIN mapEvents \subseteq DOMAIN mapEvents'
        /\ op'.name = "message" =>
              /\ DOMAIN mapEvents' = DOMAIN mapEvents \cup {PublishedOn(op'.raw)}
              /\ \A n \in DOMAIN mapEvents \ {PublishedOn(op'.raw)} :
                    mapEvents'[n] = mapEvents[n]
              /\ Len(observers') = Len(observers)
              /\ \A i \in 1..Len(observers) :
                    observers[i].name # PublishedOn(op'.raw)
                        => observers'[i] = observers[i]
        /\ StreamCall(op') =>
              /\ DOMAIN mapEvents' = DOMAIN mapEvents \cup {StreamChannel(op')}
              /\ \A n \in DOMAIN mapEvents : mapEvents'[n] = mapEvents[n]
              /\ StreamChannel(op') \notin DOMAIN mapEvents
                    => mapEvents'[StreamChannel(op')] = Null
              /\ \A i \in 1..Len(observers) : observers'[i] = observers[i]
      ]_vars

\* a unicast named a channel that held a frame's value and left it there, after
\* an earlier call had made the host's own channel, which holds null; a
\* subscriber of another channel was there before a later subscriber of that
\* channel was given a published value, and has been given nothing
C22_Witness ==
    /\ op.name = "emit"
    /\ op.message.event = "to"
    /\ {"to", "binary", "rooms"} \subseteq DOMAIN mapEvents
    /\ mapEvents["to"] # Null
    /\ mapEvents["rooms"] = Null
    /\ \E i, j \in 1..Len(observers) :
          /\ j < i
          /\ Observing(j, "binary")
          /\ observers[j].received = <<Null>>
          /\ Observing(i, "to")
          /\ Len(observers[i].received) >= 2
====
